---- MODULE Spec2Model ----
(***************************************************************************)
(* Trading Journal web application (src/app.py): the journal store (JSON   *)
(* files per user in cloud mode, a Word document in local mode), the       *)
(* session authentication, the configuration resolution and the HTTP       *)
(* handlers over them, as a state machine.                                 *)
(*                                                                         *)
(* Python values are modelled as follows.  A dict is a function from its   *)
(* keys (strings) to values, a record when the keys are known; a missing   *)
(* key is a key outside DOMAIN.  None is                                   *)
(* <<>> and an optional value v is <<v>>.  A str is a TLA+ string, except  *)
(* user names and passwords, which are sequences of one-character strings  *)
(* so that lower(), isalnum() and len() are computed.                      *)
(* Every handler is one action; it records the request it served (req),    *)
(* its response (resp) and what it did on the way (trace).                 *)
(***************************************************************************)
EXTENDS Integers, Sequences, FiniteSets, TLC

VARIABLES
    IS_CLOUD,       \* app.py:45   module constant, fixed at start-up
    APP_PASSWORD,   \* app.py:48   module constant, "" when unset
    INVITE_CODE,    \* app.py:51   module constant, "" when unset
    docxInstalled,  \* app.py:15-20  FALSE when Document is None
    environ,        \* os.environ restricted to the four configuration variables
    configFile,     \* the file at CONFIG_PATH
    users,          \* the file at USERS_DB_PATH: lowercased name -> account
    session,        \* the Flask session of the client
    journalFiles,   \* journal_<safe_username>.json files: safe name -> file
    doc,            \* the Word document at JOURNAL_PATH
    req,            \* the request served by the last step
    resp,           \* the response of the last step
    trace,          \* what the last handler did: body ran, writes, LLM calls
    loggedOut,      \* TRUE from a logout to the next successful login or registration
    inflight        \* per worker thread, the request it is in the middle of

vars == <<IS_CLOUD, APP_PASSWORD, INVITE_CODE, docxInstalled, environ, configFile,
          users, session, journalFiles, doc, req, resp, trace, loggedOut, inflight>>

settings == <<IS_CLOUD, APP_PASSWORD, INVITE_CODE, docxInstalled>>

----------------------------------------------------------------------------
(* Bounds of the model *)

\* most entries the save handler is let to store in the journal of the one
\* user of the single-user modes
MaxEntries == 2
\* most entries it is let to store, over all journals, in multi-user mode
MaxEntriesMulti == 1
\* longest "entries" list of one save-journal request
MaxReqEntries == 2
\* most journal entries the Word document is let to hold
MaxDocEntries == 1

----------------------------------------------------------------------------
(* Python values *)

None == <<>>
Some(v) == <<v>>
\* the empty dict
EmptyDict == <<>>
\* d.get(key, default)
DictGet(d, key, default) == IF key \in DOMAIN d THEN d[key] ELSE default
\* d[key] = value
DictSet(d, key, value) == (key :> value) @@ d
\* d.pop(key, None)
DictPop(d, key) == [k \in DOMAIN d \ {key} |-> d[k]]
\* d.update(e)
DictUpdate(d, e) == e @@ d
\* bool(s) of a str
TruthyStr(s) == s # ""
\* bool(v) of a list, a dict or an optional value: empty and None are falsy
Truthy(v) == v # <<>>
\* s[:n] of a str
Prefix(s, n) == IF Len(s) <= n THEN s ELSE SubSeq(s, 1, n)

\* the characters user names and passwords are made of
LowerChar(c) ==
    CASE c = "A" -> "a"
      [] c = "B" -> "b"
      [] c = "M" -> "m"
      [] OTHER -> c
\* str.isalnum() of one character
IsAlnumChar(c) == c \in {"a", "b", "m", "y", "o", "d", "e", "f", "u", "l", "t",
                         "A", "B", "M", "1", "2", "3", "4"}

RECURSIVE Lower(_)
\* str.lower()
Lower(s) == IF s = <<>> THEN <<>> ELSE <<LowerChar(Head(s))>> \o Lower(Tail(s))

RECURSIVE Filter(_, _)
\* "".join(c for c in s if c in keep)
Filter(s, keep) ==
    IF s = <<>> THEN <<>>
    ELSE (IF Head(s) \in keep THEN <<Head(s)>> ELSE <<>>) \o Filter(Tail(s), keep)

CharsOf(s) == {s[i] : i \in 1..Len(s)}

\* str.isalnum(): non-empty and every character alphanumeric
IsAlnum(s) == s # <<>> /\ \A c \in CharsOf(s) : IsAlnumChar(c)

\* the user name of a session without one (get_current_user's default)
DefaultUser == <<"d", "e", "f", "a", "u", "l", "t">>

\* user names, passwords and invite codes a client types
Bob == <<"b", "o", "b">>
BobCapital == <<"B", "o", "b">>
Amy == <<"a", "m", "y">>
TooShortName == <<"a", "b">>
BadCharName == <<"a", "!", "m">>
Password1 == <<"1", "2", "3", "4">>
Password2 == <<"a", "b", "m", "y">>
TooShortPassword == <<"1", "2", "3">>
TheInviteCode == "INVITE-2026"
\* every user name of the model
Usernames == {<<>>, Bob, BobCapital, Amy, TooShortName, BadCharName, DefaultUser}

\* username.lower(), tabulated over the user names of the model
LowerOf == [u \in Usernames |-> Lower(u)]

----------------------------------------------------------------------------
(* Authentication and user management, app.py:62-131 *)

\* hashlib.sha256(...).hexdigest(): distinct passwords give distinct digests
hash_password(password) == <<"sha256", password>>

\* the users database read back; users holds the parsed file
load_users == users

\* create_user: (success, message, users written)
create_user(username, password) ==
    IF LowerOf[username] \in DOMAIN load_users
    THEN [success |-> FALSE, message |-> "Username already exists", users |-> users]
    ELSE [success |-> TRUE, message |-> "Account created",
          users |-> DictSet(load_users, LowerOf[username],
                            [username |-> username,
                             password_hash |-> hash_password(password),
                             created |-> "now"])]

\* verify_user: (success, display name)
verify_user(username, password) ==
    IF /\ LowerOf[username] \in DOMAIN load_users
       /\ load_users[LowerOf[username]].password_hash = hash_password(password)
    THEN [success |-> TRUE, display_name |-> load_users[LowerOf[username]].username]
    ELSE [success |-> FALSE, display_name |-> None]

get_current_user == DictGet(session, "username", DefaultUser)

is_multi_user_mode == INVITE_CODE # ""

\* login_required asking for a session in multi-user mode only
login_allowed_without_password ==
    IF is_multi_user_mode
    THEN DictGet(session, "authenticated", FALSE)
         /\ Truthy(DictGet(session, "username", <<>>))
    ELSE TRUE

\* the condition under which login_required calls the wrapped handler
login_allowed ==
    IF is_multi_user_mode
    THEN DictGet(session, "authenticated", FALSE)
         /\ Truthy(DictGet(session, "username", <<>>))
    ELSE IF Truthy(APP_PASSWORD)
    THEN DictGet(session, "authenticated", FALSE)
    ELSE TRUE

(* Responses *)
Json(status, body) == [type |-> "json", status |-> status, body |-> body]
Redirect(to) == [type |-> "redirect", status |-> 302, body |-> [location |-> to]]
Render(template, args) == [type |-> "html", status |-> 200,
                           body |-> [template |-> template, args |-> args]]
JsonError(status, message) == Json(status, [error |-> message])

\* what login_required answers when it does not call the handler; a path is
\* the sequence of its segments, request.path.startswith('/api/')
login_refusal(path) ==
    IF Len(path) >= 2 /\ path[1] = "api" THEN JsonError(401, "Authentication required")
    ELSE Redirect("login")

\* the trace of a handler whose body did not run
NoTrace == [ran |-> FALSE, writes |-> <<>>, llm |-> <<>>, market |-> <<>>]
\* the trace of a handler body that wrote `writes` and sent `llm`; market
\* holds the snapshot api_process_entry fetched for its message
Ran(writes, llm) == [ran |-> TRUE, writes |-> writes, llm |-> llm, market |-> <<>>]

----------------------------------------------------------------------------
(* Cloud journal storage, app.py:253-289 *)

\* the characters get_user_journal_path keeps besides the alphanumeric ones
SafePunct == {"-", "_"}
SafeChars == {c \in {"a", "b", "m", "y", "o", "d", "e", "f", "u", "l", "t",
                     "A", "B", "M", "1", "2", "3", "4", "-", "_", "!", " "} :
                 IsAlnumChar(c) \/ c \in SafePunct}

\* one journal file for every user
get_user_journal_path_shared(username) == DefaultUser

\* the file name part journal_<safe_username>.json of the path of a user
get_user_journal_path(username) ==
    LET safe_username == Lower(Filter(username, SafeChars))
    IN  IF safe_username = <<>> THEN DefaultUser ELSE safe_username

\* get_user_journal_path, tabulated over the user names of the model
JournalPathOf == [u \in Usernames |-> get_user_journal_path(u)]

\* a file holding json.dump(data), and a file a failed write left truncated
JsonFile(data) == [valid |-> TRUE, data |-> data]

\* load_cloud_journal on the files fs: a missing or unparsable file is empty
load_cloud_journal(fs, username) ==
    LET journal_path == JournalPathOf[username]
    IN  IF journal_path \in DOMAIN fs /\ fs[journal_path].valid
        THEN fs[journal_path].data
        ELSE [entries |-> <<>>]

\* How a write of a file can end: "ok"; "denied" when open() fails, the file
\* is as before; "torn" when open() truncated the file and the write failed.
WriteOutcomes == {"ok", "denied", "torn"}

\* the files after save_cloud_journal(data, username) ended with outcome
save_cloud_journal_files(fs, data, username, outcome) ==
    LET journal_path == JournalPathOf[username]
    IN  CASE outcome = "ok" -> DictSet(fs, journal_path, JsonFile(data))
          [] outcome = "torn" -> DictSet(fs, journal_path,
                                          [valid |-> FALSE, data |-> EmptyDict])
          [] OTHER -> fs

\* the value save_cloud_journal returns
save_cloud_journal_result(outcome) == outcome = "ok"

\* add_cloud_entry putting the entry at the head of the journal
add_cloud_entry_at_head(fs, entry, username, outcome) ==
    LET journal == load_cloud_journal(fs, username)
        prepended == [journal EXCEPT !.entries = <<entry>> \o @]
    IN  [files |-> save_cloud_journal_files(fs, prepended, username, outcome),
         ok |-> save_cloud_journal_result(outcome)]

\* add_cloud_entry: load, append, write back; (files, returned value)
add_cloud_entry(fs, entry, username, outcome) ==
    LET journal == load_cloud_journal(fs, username)
        appended == [journal EXCEPT !.entries = Append(@, entry)]
    IN  [files |-> save_cloud_journal_files(fs, appended, username, outcome),
         ok |-> save_cloud_journal_result(outcome)]

\* the entries of the journal of a user as the handlers read them
StoredEntries(username) == load_cloud_journal(journalFiles, username).entries

----------------------------------------------------------------------------
(* Values the environment supplies *)

\* readings of get_est_timestamp(), app.py:169-171
EstTimes == {"Monday, January 05, 2026 09:30 AM EST",
             "Tuesday, January 06, 2026 10:15 AM EST"}

BullishSentiment == [label |-> "BULLISH", color |-> "lightgreen", icon |-> "(green)"]

\* an entry as process-entry returns it and the client sends it back
ProcessedEntry == [timestamp |-> "Monday, January 05, 2026 09:30 AM EST",
                   sentiment |-> BullishSentiment,
                   content |-> "Summary: bought SPX",
                   raw_text |-> "bought spx"]
\* the entries a save-journal request is made of; EmptyDict has no key at all
RequestEntries == {ProcessedEntry, EmptyDict}

SeqsUpTo(S, n) == UNION {[1..k -> S] : k \in 0..n}

\* list.reverse()
Reverse(s) == [i \in 1..Len(s) |-> s[Len(s) + 1 - i]]
\* s[:n] of a list
FirstN(s, n) == SubSeq(s, 1, IF n <= Len(s) THEN n ELSE Len(s))
\* list.pop(i) for a 0-based i in range: the list without that element
PopAt(s, i) == SubSeq(s, 1, i) \o SubSeq(s, i + 2, Len(s))

(* What a handler body yields: its response, the files and the document it
   leaves, and its trace. *)
Result(response, fs, document, writes, llm) ==
    [resp |-> response, files |-> fs, doc |-> document, config |-> configFile,
     trace |-> Ran(writes, llm)]
\* a handler body that changes nothing
Reply(response) == Result(response, journalFiles, doc, <<>>, <<>>)

----------------------------------------------------------------------------
(* Cloud branches of the entry handlers *)

\* the dict api_save_journal stores for a submitted entry, app.py:555-560
cloud_entry(entry, now) ==
    [timestamp |-> DictGet(entry, "timestamp", now),
     sentiment |-> DictGet(entry, "sentiment", EmptyDict),
     content |-> DictGet(entry, "content", ""),
     saved_at |-> "2026-01-05T14:30:00+00:00"]

RECURSIVE save_entries_loop(_, _, _, _, _)
\* the loop of app.py:553-562: stops at the first add_cloud_entry that fails
save_entries_loop(fs, entries, nows, outcomes, username) ==
    IF entries = <<>> THEN [files |-> fs, failed |-> FALSE, writes |-> <<>>]
    ELSE LET added == add_cloud_entry(fs, cloud_entry(Head(entries), Head(nows)),
                                      username, Head(outcomes))
         IN  IF ~added.ok
             THEN [files |-> added.files, failed |-> TRUE, writes |-> <<FALSE>>]
             ELSE LET rest == save_entries_loop(added.files, Tail(entries), Tail(nows),
                                                Tail(outcomes), username)
                  IN  [files |-> rest.files, failed |-> rest.failed,
                       writes |-> <<TRUE>> \o rest.writes]

\* api_save_journal in cloud mode, app.py:552-564
save_journal_cloud(entries, nows, outcomes) ==
    LET done == save_entries_loop(journalFiles, entries, nows, outcomes, get_current_user)
    IN  IF done.failed
        THEN Result(JsonError(500, "Failed to save entry"), done.files, doc, done.writes, <<>>)
        ELSE Result(Json(200, [success |-> TRUE, count |-> Len(entries), mode |-> "cloud"]),
                    done.files, doc, done.writes, <<>>)

\* most entries list-entries returns, app.py:800
ListLimit == 10
\* characters of the content a list preview keeps, app.py:790
PreviewLen == 100
\* characters of the content an updated entry's preview keeps, app.py:983
UpdatePreviewLen == 150

\* one element of the list-entries response, app.py:790-796
list_item(entry) ==
    [timestamp |-> DictGet(entry, "timestamp", ""),
     sentiment |-> DictGet(DictGet(entry, "sentiment", EmptyDict), "label", ""),
     preview |-> IF TruthyStr(DictGet(entry, "content", ""))
                 THEN Prefix(DictGet(entry, "content", ""), PreviewLen) \o "..."
                 ELSE "",
     content |-> DictGet(entry, "content", "")]

\* the listing in insertion order
list_entries_oldest_first(entries) ==
    FirstN([i \in 1..Len(entries) |-> list_item(entries[i])], ListLimit)

\* the listing cut to its first entries before it is reversed
list_entries_cut_first(entries) ==
    Reverse(FirstN([i \in 1..Len(entries) |-> list_item(entries[i])], ListLimit))

\* the list api_list_entries returns for stored entries, app.py:788-800
list_entries_of(entries) ==
    FirstN(Reverse([i \in 1..Len(entries) |-> list_item(entries[i])]), ListLimit)

\* api_list_entries in cloud mode, app.py:783-800
list_entries_cloud ==
    LET journal == load_cloud_journal(journalFiles, get_current_user)
    IN  IF ~Truthy(journal.entries)
        THEN Reply(Json(200, [entries |-> <<>>, message |-> "No journal entries found"]))
        ELSE Reply(Json(200, [entries |-> list_entries_of(journal.entries)]))

\* api_delete_entry counting a negative index from the oldest entry
delete_index_from_oldest(entry_index, n) ==
    IF entry_index < 0 THEN 0 - entry_index - 1 ELSE entry_index

\* api_delete_entry taking a submitted index as it is
delete_index_unwrapped(entry_index, n) == entry_index

\* the index api_delete_entry uses for a submitted index, app.py:944-945
delete_index(entry_index, n) == IF entry_index < 0 THEN n + entry_index ELSE entry_index

\* api_delete_entry in cloud mode, app.py:939-952
delete_entry_cloud(entry_index, outcome) ==
    LET journal == load_cloud_journal(journalFiles, get_current_user)
        entries == journal.entries
        index == delete_index(entry_index, Len(entries))
    IN  IF 0 <= index /\ index < Len(entries)
        THEN LET deleted == entries[index + 1]
                 popped == [journal EXCEPT !.entries = PopAt(entries, index)]
             IN  Result(Json(200, [success |-> TRUE,
                                   deleted |-> DictGet(deleted, "timestamp", "Unknown")]),
                        save_cloud_journal_files(journalFiles, popped, get_current_user, outcome),
                        doc, <<save_cloud_journal_result(outcome)>>, <<>>)
        ELSE Reply(JsonError(404, "Entry not found"))

\* the preview api_update_entry stores, app.py:983-986
update_preview(new_content) ==
    Prefix(new_content, UpdatePreviewLen)
        \o (IF Len(new_content) > UpdatePreviewLen THEN "..." ELSE "")

\* api_update_entry (by index) in cloud mode, app.py:973-991
update_entry_cloud(entry_index, new_content, outcome) ==
    LET journal == load_cloud_journal(journalFiles, get_current_user)
        entries == journal.entries
    IN  IF 0 <= entry_index /\ entry_index < Len(entries)
        THEN LET edited == DictSet(DictSet(DictSet(entries[entry_index + 1],
                                "content", new_content),
                                "edited", "2026-01-06 10:15"),
                                "preview", update_preview(new_content))
                 updated == [journal EXCEPT !.entries[entry_index + 1] = edited]
             IN  Result(Json(200, [success |-> TRUE, message |-> "Entry updated"]),
                        save_cloud_journal_files(journalFiles, updated, get_current_user, outcome),
                        doc, <<save_cloud_journal_result(outcome)>>, <<>>)
        ELSE Reply(JsonError(404, "Entry not found"))

\* api_clear_journal in cloud mode, app.py:1003-1005
clear_journal_cloud(outcome) ==
    Result(Json(200, [success |-> TRUE, message |-> "Journal cleared"]),
           save_cloud_journal_files(journalFiles, [entries |-> <<>>], get_current_user, outcome),
           doc, <<save_cloud_journal_result(outcome)>>, <<>>)

\* the separator line of a rendered entry
Separator == "============================================================"
EntryTitle == "TRADING JOURNAL ENTRY"

\* the lines api_view_journal renders for one entry, app.py:743-751
view_entry_lines(entry) ==
    <<Separator, EntryTitle, DictGet(entry, "timestamp", "")>>
    \o (IF Truthy(DictGet(entry, "sentiment", EmptyDict))
        THEN <<"Market Sentiment: " \o DictGet(entry.sentiment, "icon", "") \o " "
                 \o DictGet(entry.sentiment, "label", "")>>
        ELSE <<>>)
    \o <<Separator, DictGet(entry, "content", ""), "">>

RECURSIVE view_lines(_)
view_lines(entries) ==
    IF entries = <<>> THEN <<>>
    ELSE view_entry_lines(Head(entries)) \o view_lines(Tail(entries))

\* api_view_journal in cloud mode, app.py:735-753; the content is the list of
\* the lines that the handler joins with newlines
view_journal_cloud ==
    LET journal == load_cloud_journal(journalFiles, get_current_user)
    IN  IF ~Truthy(journal.entries)
        THEN Reply(Json(200, [content |-> None, message |-> "No journal entries found"]))
        ELSE Reply(Json(200, [content |-> view_lines(journal.entries)]))

----------------------------------------------------------------------------
(* Configuration, app.py:173-229 *)

ConfigKeys == {"api_key", "cloudinary_cloud_name", "cloudinary_api_key",
               "cloudinary_api_secret"}

\* env_mappings of load_config, read from the configuration key
EnvVarOf(config_key) ==
    CASE config_key = "api_key" -> "ANTHROPIC_API_KEY"
      [] config_key = "cloudinary_cloud_name" -> "CLOUDINARY_CLOUD_NAME"
      [] config_key = "cloudinary_api_key" -> "CLOUDINARY_API_KEY"
      [] config_key = "cloudinary_api_secret" -> "CLOUDINARY_API_SECRET"

\* the file at CONFIG_PATH: missing, holding a JSON object, or unparsable
NoConfigFile == [exists |-> FALSE, valid |-> FALSE, data |-> EmptyDict]
ConfigFileOf(data) == [exists |-> TRUE, valid |-> TRUE, data |-> data]
TornConfigFile == [exists |-> TRUE, valid |-> FALSE, data |-> EmptyDict]

\* the config after the loop over env_mappings, app.py:175-193
config_from_env ==
    [k \in ConfigKeys |->
        IF TruthyStr(DictGet(environ, EnvVarOf(k), "")) THEN environ[EnvVarOf(k)] ELSE ""]

\* load_config with the file taking priority over the environment
load_config_file_first ==
    IF ~IS_CLOUD /\ configFile.exists /\ configFile.valid
    THEN [k \in ConfigKeys \cup DOMAIN configFile.data |->
            IF k \in DOMAIN configFile.data THEN configFile.data[k] ELSE config_from_env[k]]
    ELSE config_from_env

\* load_config, app.py:173-207
load_config ==
    IF ~IS_CLOUD /\ configFile.exists /\ configFile.valid
    THEN [k \in ConfigKeys \cup DOMAIN configFile.data |->
            IF k \in DOMAIN configFile.data /\ ~TruthyStr(DictGet(config_from_env, k, ""))
            THEN configFile.data[k]
            ELSE config_from_env[k]]
    ELSE config_from_env

\* save_config, app.py:209-223: (returned value, the file afterwards)
save_config(config, outcome) ==
    IF IS_CLOUD THEN [ok |-> TRUE, file |-> configFile]
    ELSE CASE outcome = "ok" ->
                [ok |-> TRUE, file |-> ConfigFileOf(DictUpdate(load_config, config))]
           [] outcome = "torn" -> [ok |-> FALSE, file |-> TornConfigFile]
           [] OTHER -> [ok |-> FALSE, file |-> configFile]

get_api_key == DictGet(load_config, "api_key", "")

\* characters of the API key the settings page shows, app.py:662
KeyPreviewLen == 10

----------------------------------------------------------------------------
(* Market data for the prompt, app.py:291-397 *)

\* the sentiment with the thresholds of the SPX change met at equality and
\* without the second step for a high VIX
market_sentiment_at_threshold(data) ==
    LET spy_ch == DictGet(DictGet(data, "GSPC", EmptyDict), "change", 0)
        vix == DictGet(DictGet(data, "VIX", EmptyDict), "price", 2000)
        score == (IF spy_ch >= 100 THEN 2 ELSE IF spy_ch >= 30 THEN 1
                  ELSE IF spy_ch <= -100 THEN -2 ELSE IF spy_ch <= -30 THEN -1 ELSE 0)
                 + (IF vix < 1500 THEN 1 ELSE IF vix > 2500 THEN -1 ELSE 0)
    IN  IF score >= 3
        THEN [label |-> "STRONGLY BULLISH", color |-> "green", icon |-> "(green)"]
        ELSE IF score >= 1 THEN BullishSentiment
        ELSE IF score <= -3
        THEN [label |-> "STRONGLY BEARISH", color |-> "red", icon |-> "(red)"]
        ELSE IF score <= -1
        THEN [label |-> "BEARISH", color |-> "salmon", icon |-> "(red)"]
        ELSE [label |-> "NEUTRAL", color |-> "yellow", icon |-> "(yellow)"]

\* the sentiment get_market_data derives from the quotes it fetched,
\* app.py:345-370; a change is in hundredths of a percent and a price in
\* hundredths, as round(x, 2) leaves them
market_sentiment(data) ==
    LET spy_ch == DictGet(DictGet(data, "GSPC", EmptyDict), "change", 0)
        vix == DictGet(DictGet(data, "VIX", EmptyDict), "price", 2000)
        by_change == IF spy_ch > 100 THEN 2
                     ELSE IF spy_ch > 30 THEN 1
                     ELSE IF spy_ch < -100 THEN -2
                     ELSE IF spy_ch < -30 THEN -1
                     ELSE 0
        by_vix == IF vix < 1500 THEN 1 ELSE IF vix > 2500 THEN -1 ELSE 0
        by_high_vix == IF vix > 3000 THEN -1 ELSE 0
        score == by_change + by_vix + by_high_vix
    IN  IF score >= 3
        THEN [label |-> "STRONGLY BULLISH", color |-> "green", icon |-> "(green)"]
        ELSE IF score >= 1 THEN BullishSentiment
        ELSE IF score <= -3
        THEN [label |-> "STRONGLY BEARISH", color |-> "red", icon |-> "(red)"]
        ELSE IF score <= -1
        THEN [label |-> "BEARISH", color |-> "salmon", icon |-> "(red)"]
        ELSE [label |-> "NEUTRAL", color |-> "yellow", icon |-> "(yellow)"]

\* get_market_data with yfinance installed, app.py:295-373, for the SPX change
\* and the VIX price it fetched; each is an optional value, None when the
\* fetch of the symbol raised or gave no history
get_market_data(spx, vix) ==
    LET direction(ch) == IF ch > 0 THEN "up" ELSE IF ch < 0 THEN "down" ELSE "flat"
        quotes ==
          (IF spx = None THEN EmptyDict
           ELSE "GSPC" :> [name |-> "SPX", price |-> 512345, change |-> spx[1],
                           direction |-> direction(spx[1])])
          @@ (IF vix = None THEN EmptyDict
              ELSE "VIX" :> [name |-> "VIX", price |-> vix[1], change |-> -120,
                             direction |-> direction(-120),
                             status |-> IF vix[1] < 1500 THEN "LOW"
                                        ELSE IF vix[1] > 2500 THEN "ELEVATED"
                                        ELSE "NORMAL"])
    IN  ("sentiment" :> market_sentiment(quotes)) @@ ("timestamp" :> "09:30:00 AM EST")
        @@ quotes

\* Snapshots get_market_data returns to the handlers of Spec: None when
\* yfinance is missing or the fetch raised, or a snapshot of a rising market
MarketData == {None, get_market_data(Some(42), Some(1450))}

\* one quote line, app.py:386-387
quote_line(sym, d) ==
    [line |-> "quote", name |-> d.name, sym |-> sym, price |-> d.price,
     sign |-> IF d.change > 0 THEN "+" ELSE "", change |-> d.change]

\* format_market_for_prompt, app.py:378-397: the lines it joins
format_market_for_prompt(data) ==
    IF ~Truthy(data) THEN <<>>
    ELSE <<[line |-> "Current Market Conditions:"]>>
         \o (IF "GSPC" \in DOMAIN data THEN <<quote_line("GSPC", data.GSPC)>> ELSE <<>>)
         \o (IF "VIX" \in DOMAIN data THEN <<quote_line("VIX", data.VIX)>> ELSE <<>>)
         \o (IF "VIX" \in DOMAIN data
             THEN <<[line |-> "VIX", price |-> data.VIX.price,
                     sign |-> IF data.VIX.change > 0 THEN "+" ELSE "",
                     change |-> data.VIX.change, status |-> data.VIX.status]>>
             ELSE <<>>)
         \o (IF "sentiment" \in DOMAIN data
             THEN <<[line |-> "Overall Sentiment", icon |-> data.sentiment.icon,
                     label |-> data.sentiment.label]>>
             ELSE <<>>)

\* the message with the raw text ahead of the market block
process_message_text_first(timestamp, raw_text, include_market, market_data) ==
    <<[part |-> "Date/Time", timestamp |-> timestamp],
      [part |-> "My trading thoughts", text |-> raw_text]>>
    \o (IF include_market /\ Truthy(market_data)
        THEN <<[part |-> "market", lines |-> format_market_for_prompt(market_data)]>>
        ELSE <<>>)

\* the user message api_process_entry builds, app.py:504-512, as its parts
process_message(timestamp, raw_text, include_market, market_data) ==
    <<[part |-> "Date/Time", timestamp |-> timestamp]>>
    \o (IF include_market /\ Truthy(market_data)
        THEN <<[part |-> "market", lines |-> format_market_for_prompt(market_data)]>>
        ELSE <<>>)
    \o <<[part |-> "My trading thoughts", text |-> raw_text]>>

\* api_process_entry, app.py:490-539
api_process_entry(data, now, market_first, llm, market_second) ==
    LET raw_text == DictGet(data, "text", "")
        include_market == DictGet(data, "include_market", TRUE)
        msg == process_message(now, raw_text, include_market, market_first)
        sentiment == IF Truthy(market_second)
                     THEN DictGet(market_second, "sentiment", EmptyDict)
                     ELSE EmptyDict
    IN  IF ~TruthyStr(raw_text) THEN Reply(JsonError(400, "No text provided"))
        ELSE IF ~TruthyStr(get_api_key) THEN Reply(JsonError(400, "API key not configured"))
        ELSE [Result(IF ~llm.ok THEN JsonError(500, llm.text)
                     ELSE Json(200, [timestamp |-> now, sentiment |-> sentiment,
                                     content |-> llm.text, raw_text |-> raw_text]),
                     journalFiles, doc, <<>>, <<[message |-> msg, reply |-> llm]>>)
              EXCEPT !.trace.market = IF include_market THEN <<market_first>> ELSE <<>>]

----------------------------------------------------------------------------
(* Local mode: the Word document, app.py:566-644, 755-770, 802-870, 877-926.
   The document is the list of the stripped texts of its paragraphs. *)

NoDocument == [exists |-> FALSE, paragraphs |-> <<>>]
SentimentPrefix == "Market Sentiment:"

\* text.startswith(prefix)
StartsWith(text, prefix) ==
    Len(text) >= Len(prefix) /\ SubSeq(text, 1, Len(prefix)) = prefix
\* 'Market Sentiment' in text; the modelled texts hold it at their start only
HasSentiment(text) == StartsWith(text, SentimentPrefix)
\* any(day in text for day in [...]); the modelled texts hold it at their start only
HasDayName(text) ==
    \E day \in {"Monday", "Tuesday", "Wednesday", "Thursday", "Friday", "Saturday", "Sunday"} :
        StartsWith(text, day)
\* text.startswith of the separator character
IsSeparator(text) == StartsWith(text, "=")

\* the non-blank lines of a content; the modelled contents are single lines
content_lines(content) == IF content = "" THEN <<>> ELSE <<content>>

\* the paragraphs api_save_journal adds for one entry, app.py:580-640
doc_entry_paragraphs(paragraphs, entry) ==
    (IF Len(paragraphs) > 1 THEN <<"">> ELSE <<>>)
    \o <<Separator, EntryTitle, DictGet(entry, "timestamp", "")>>
    \o (IF Truthy(DictGet(entry, "sentiment", EmptyDict))
        THEN <<SentimentPrefix \o " " \o DictGet(entry.sentiment, "icon", "") \o " "
                 \o DictGet(entry.sentiment, "label", "")>>
        ELSE <<>>)
    \o <<Separator>>
    \o content_lines(DictGet(entry, "content", ""))

RECURSIVE doc_add_entries(_, _)
doc_add_entries(paragraphs, entries) ==
    IF entries = <<>> THEN paragraphs
    ELSE doc_add_entries(paragraphs \o doc_entry_paragraphs(paragraphs, Head(entries)),
                         Tail(entries))

\* How writing the document can end: "ok", or "locked" (PermissionError)
DocOutcomes == {"ok", "locked"}

\* api_save_journal in local mode, app.py:566-649
save_journal_local(entries, outcome) ==
    IF ~docxInstalled THEN Reply(JsonError(500, "python-docx not installed"))
    ELSE IF outcome = "locked" THEN Reply(JsonError(500, "File is open in another program"))
    ELSE LET opened == IF doc.exists THEN doc.paragraphs ELSE <<"Trading Journal">>
         IN  Result(Json(200, [success |-> TRUE, count |-> Len(entries), path |-> "JOURNAL_PATH"]),
                    journalFiles,
                    [exists |-> TRUE, paragraphs |-> doc_add_entries(opened, entries)],
                    <<>>, <<>>)

\* api_save_journal without the check of app.py:547-548
api_save_journal_unchecked(data, nows, outcomes, doc_outcome) ==
    LET entries == DictGet(data, "entries", <<>>)
    IN  IF IS_CLOUD THEN save_journal_cloud(entries, nows, outcomes)
        ELSE save_journal_local(entries, doc_outcome)

\* api_save_journal, app.py:543-649
api_save_journal(data, nows, outcomes, doc_outcome) ==
    LET entries == DictGet(data, "entries", <<>>)
    IN  IF ~Truthy(entries) THEN Reply(JsonError(400, "No entries to save"))
        ELSE IF IS_CLOUD THEN save_journal_cloud(entries, nows, outcomes)
        ELSE save_journal_local(entries, doc_outcome)

\* api_view_journal, app.py:732-775
api_view_journal(doc_outcome) ==
    IF IS_CLOUD THEN view_journal_cloud
    ELSE IF ~doc.exists THEN Reply(Json(200, [content |-> None, message |-> "No journal file found"]))
    ELSE IF ~docxInstalled THEN Reply(JsonError(500, "python-docx not installed"))
    ELSE IF doc_outcome = "locked"
    THEN Reply(JsonError(500, "Journal file is open in another program"))
    ELSE Reply(Json(200, [content |-> SelectSeq(doc.paragraphs, TruthyStr)]))

RECURSIVE JoinWords(_)
\* ' '.join(lines)
JoinWords(lines) ==
    IF lines = <<>> THEN ""
    ELSE IF Len(lines) = 1 THEN lines[1]
    ELSE lines[1] \o " " \o JoinWords(Tail(lines))

IsPreviewLine(l) == TruthyStr(l) /\ ~IsSeparator(l) /\ l # EntryTitle /\ ~HasSentiment(l)

\* the entry the local list builds from the collected lines, app.py:824-834
doc_list_item(current_entry, entry_timestamp, entry_sentiment) ==
    LET preview_lines == SelectSeq(current_entry, IsPreviewLine)
    IN  [timestamp |-> entry_timestamp[1],
         sentiment |-> entry_sentiment,
         preview |-> IF Truthy(preview_lines)
                     THEN Prefix(JoinWords(preview_lines), PreviewLen) \o "..."
                     ELSE "",
         content |-> current_entry]

RECURSIVE parse_doc(_, _, _, _, _)
\* the parsing loop of api_list_entries, app.py:812-866; the timestamp and the
\* sentiment are optional values
parse_doc(paragraphs, entries, current_entry, entry_timestamp, entry_sentiment) ==
    IF paragraphs = <<>>
    THEN IF Truthy(current_entry) /\ Truthy(entry_timestamp)
         THEN Append(entries, doc_list_item(current_entry, entry_timestamp, entry_sentiment))
         ELSE entries
    ELSE LET text == Head(paragraphs)
         IN  IF IsSeparator(text) \/ text = EntryTitle
             THEN LET saved == IF Truthy(current_entry) /\ Truthy(entry_timestamp)
                               THEN Append(entries, doc_list_item(current_entry,
                                                 entry_timestamp, entry_sentiment))
                               ELSE entries
                  IN  IF text = EntryTitle
                      THEN parse_doc(Tail(paragraphs), saved, <<text>>, None, None)
                      ELSE parse_doc(Tail(paragraphs), saved, <<text>>,
                                     entry_timestamp, entry_sentiment)
             ELSE LET stamped == IF /\ entry_timestamp = None /\ TruthyStr(text)
                                    /\ ~IsSeparator(text) /\ ~HasSentiment(text)
                                    /\ HasDayName(text)
                                 THEN Some(text) ELSE entry_timestamp
                      felt == IF HasSentiment(text)
                              THEN Some(SubSeq(text, Len(SentimentPrefix) + 2, Len(text)))
                              ELSE entry_sentiment
                  IN  parse_doc(Tail(paragraphs), entries, Append(current_entry, text),
                                stamped, felt)

\* api_list_entries, app.py:779-875
api_list_entries(doc_outcome) ==
    IF IS_CLOUD THEN list_entries_cloud
    ELSE IF ~doc.exists THEN Reply(Json(200, [entries |-> <<>>, message |-> "No journal file found"]))
    ELSE IF ~docxInstalled THEN Reply(JsonError(500, "python-docx not installed"))
    ELSE IF doc_outcome = "locked"
    THEN Reply(JsonError(500, "Journal file is open in another program"))
    ELSE Reply(Json(200, [entries |->
            FirstN(Reverse(parse_doc(doc.paragraphs, <<>>, <<>>, None, None)), ListLimit)]))

RECURSIVE find_entry(_, _, _, _)
\* the scan of the first api_update_entry, app.py:898-912: whether a paragraph
\* holding original_timestamp follows an entry title before the scan ends
find_entry(paragraphs, original_timestamp, started, in_target_entry) ==
    IF paragraphs = <<>> THEN in_target_entry
    ELSE LET text == Head(paragraphs)
         IN  IF text = EntryTitle /\ in_target_entry THEN TRUE
             ELSE LET begun == started \/ text = EntryTitle
                  IN  find_entry(Tail(paragraphs), original_timestamp, begun,
                                 in_target_entry \/ (begun /\ StartsWith(text, original_timestamp)))

\* the api_update_entry defined first (by timestamp), app.py:879-926
api_update_entry_by_timestamp(data, doc_outcome) ==
    LET original_timestamp == DictGet(data, "original_timestamp", "")
        new_content == DictGet(data, "content", "")
    IN  IF ~TruthyStr(original_timestamp) \/ ~TruthyStr(new_content)
        THEN Reply(JsonError(400, "Missing timestamp or content"))
        ELSE IF ~docxInstalled THEN Reply(JsonError(500, "python-docx not installed"))
        ELSE IF ~doc.exists THEN Reply(JsonError(404, "Journal file not found"))
        ELSE IF doc_outcome = "locked"
        THEN Reply(JsonError(500, "Journal file is open in another program"))
        ELSE IF ~find_entry(doc.paragraphs, original_timestamp, FALSE, FALSE)
        THEN Reply(JsonError(404, "Entry not found"))
        ELSE Reply(Json(200, [success |-> TRUE, message |-> "Entry loaded for editing"]))

\* api_delete_entry, app.py:930-957; the index is an optional value
api_delete_entry(data, outcome) ==
    LET entry_index == DictGet(data, "index", None)
    IN  IF entry_index = None THEN Reply(JsonError(400, "Missing entry index"))
        ELSE IF IS_CLOUD THEN delete_entry_cloud(entry_index[1], outcome)
        ELSE Reply(JsonError(400, "Delete not supported in local mode"))

\* the api_update_entry defined second (by index), app.py:961-996
api_update_entry(data, outcome) ==
    LET entry_index == DictGet(data, "index", None)
        new_content == DictGet(data, "content", "")
    IN  IF entry_index = None THEN Reply(JsonError(400, "Missing entry index"))
        ELSE IF ~TruthyStr(new_content) THEN Reply(JsonError(400, "Missing content"))
        ELSE IF IS_CLOUD THEN update_entry_cloud(entry_index[1], new_content, outcome)
        ELSE Reply(JsonError(400, "Update not supported in local mode"))

\* api_clear_journal without the check of the mode
api_clear_journal_any_mode(outcome) == clear_journal_cloud(outcome)

\* api_clear_journal, app.py:1000-1009
api_clear_journal(outcome) ==
    IF IS_CLOUD THEN clear_journal_cloud(outcome)
    ELSE Reply(JsonError(400,
            "Clear not supported in local mode - delete the Word file manually"))

----------------------------------------------------------------------------
(* Requests *)

Request(op, method, path, data) == [op |-> op, method |-> method, path |-> path, data |-> data]


RegisterForm(u, p, c, i) ==
    [username |-> u, password |-> p, confirm_password |-> c, invite_code |-> i]
RegisterForms ==
    {RegisterForm(u, Password1, Password1, TheInviteCode) : u \in {Bob, BobCapital, Amy}}
    \cup {RegisterForm(BobCapital, Password2, Password2, TheInviteCode),
          RegisterForm(Bob, Password1, Password1, "GUESS"),
          RegisterForm(TooShortName, Password1, Password1, TheInviteCode),
          RegisterForm(BadCharName, Password1, Password1, TheInviteCode),
          RegisterForm(Amy, TooShortPassword, TooShortPassword, TheInviteCode),
          RegisterForm(Amy, Password1, Password2, TheInviteCode)}

\* the outcomes of the writes of a loop over n entries: all succeed, or the
\* k-th is the first to fail (the loop makes no write after it)
OutcomeSeqs(n) ==
    {[i \in 1..n |-> "ok"]}
    \cup {[i \in 1..n |-> IF i = k THEN kind ELSE "ok"] :
             k \in 1..n, kind \in WriteOutcomes \ {"ok"}}

\* the clock readings of the loop over the entries of a save-journal request;
\* a reading is used only for an entry without a timestamp
ClockReadings(data) ==
    LET entries == DictGet(data, "entries", <<>>)
        unused == CHOOSE t \in EstTimes : TRUE
    IN  {nows \in [1..Len(entries) -> EstTimes] :
            \A i \in 1..Len(entries) : "timestamp" \in DOMAIN entries[i] => nows[i] = unused}

\* the most entries a journal of the model holds
EntryBound == IF is_multi_user_mode THEN MaxEntriesMulti ELSE MaxEntries

IndexRange == (0 - (EntryBound + 1))..(EntryBound + 1)
EditedContent == "Edited: sold SPX"

\* number of entries the document holds
DocEntryCount == Len(SelectSeq(doc.paragraphs, LAMBDA t : t = EntryTitle))

RECURSIVE SumLen(_, _)
SumLen(fs, names) ==
    IF names = {} THEN 0
    ELSE LET name == CHOOSE x \in names : TRUE
         IN  Len(fs[name].data.entries) + SumLen(fs, names \ {name})

\* the outcome of opening the document is drawn only where the handler opens it
DocOutcomesHere == IF ~IS_CLOUD /\ login_allowed THEN DocOutcomes ELSE {"ok"}

----------------------------------------------------------------------------
(* Worker threads.  The server runs each request on a thread; the handlers
   take no lock, so between the steps of one request (reading a file, writing
   it back) another thread can run.  In Spec every request runs from its
   first step to its last with no other in between; SpecRace and
   SpecRegisterRace below run two requests step by step. *)

Workers == {"w1", "w2"}
\* a thread that is serving no request
Idle == [pc |-> "idle"]

----------------------------------------------------------------------------
(* Handlers *)

\* a handler under @login_required, app.py:110-131: the body's result takes
\* effect only when the decorator calls the body
Protected(request, result) ==
    /\ req' = request
    /\ IF login_allowed
       THEN /\ resp' = result.resp
            /\ journalFiles' = result.files
            /\ doc' = result.doc
            /\ configFile' = result.config
            /\ trace' = result.trace
       ELSE /\ resp' = login_refusal(request.path)
            /\ trace' = NoTrace
            /\ UNCHANGED <<journalFiles, doc, configFile>>
    /\ UNCHANGED <<settings, environ, users, session, loggedOut, inflight>>

\* a handler without the decorator, which may change the session and the users
Open(request, response, newSession, newUsers, isLogout, isLogin) ==
    /\ req' = request
    /\ resp' = response
    /\ session' = newSession
    /\ users' = newUsers
    /\ trace' = NoTrace
    /\ loggedOut' = IF isLogout THEN TRUE ELSE IF isLogin THEN FALSE ELSE loggedOut
    /\ UNCHANGED <<settings, environ, configFile, journalFiles, doc, inflight>>

\* session after a successful login or registration, app.py:413-414, 462-463
SignedIn(username) == DictSet(DictSet(session, "authenticated", TRUE), "username", username)

\* login, app.py:404-426
login(method, form) ==
    LET request == Request("login", method, <<"login">>, form)
    IN  IF method = "GET"
        THEN Open(request, Render("login.html", [multi_user |-> is_multi_user_mode]),
                  session, users, FALSE, FALSE)
        ELSE IF is_multi_user_mode
        THEN LET verified == verify_user(form.username, form.password)
             IN  IF verified.success
                 THEN Open(request, Redirect("index"), SignedIn(verified.display_name),
                           users, FALSE, TRUE)
                 ELSE Open(request, Render("login.html",
                               [error |-> "Invalid username or password", multi_user |-> TRUE]),
                           session, users, FALSE, FALSE)
        ELSE IF form.password = APP_PASSWORD
        THEN Open(request, Redirect("index"), SignedIn(DefaultUser), users, FALSE, TRUE)
        ELSE Open(request, Render("login.html",
                      [error |-> "Invalid password", multi_user |-> FALSE]),
                  session, users, FALSE, FALSE)

Login ==
    LET LoginForms ==
            {[username |-> u, password |-> p] : u \in {Bob, BobCapital, Amy}, p \in {Password1, Password2}}
            \cup {[username |-> <<>>, password |-> p] : p \in {<<>>, Password1}}
    IN  \/ login("GET", EmptyDict)
        \/ \E form \in LoginForms : login("POST", form)

\* shortest user name and password register accepts, app.py:445, 452
MinUsernameLen == 3
MinPasswordLen == 4

\* the error register answers for a form, "" when the form is accepted, app.py:440-456
register_error(form) ==
    IF form.invite_code # INVITE_CODE THEN "Invalid invite code"
    ELSE IF ~Truthy(form.username) \/ Len(form.username) < MinUsernameLen
    THEN "Username must be at least 3 characters"
    ELSE IF ~IsAlnum(Filter(form.username, CharsOf(form.username) \ SafePunct))
    THEN "Username can only contain letters, numbers, - and _"
    ELSE IF ~Truthy(form.password) \/ Len(form.password) < MinPasswordLen
    THEN "Password must be at least 4 characters"
    ELSE IF form.password # form.confirm_password THEN "Passwords do not match"
    ELSE ""

\* register, app.py:428-467
register(method, form) ==
    LET request == Request("register", method, <<"register">>, form)
    IN  IF ~is_multi_user_mode
        THEN Open(request, Redirect("login"), session, users, FALSE, FALSE)
        ELSE IF method = "GET"
        THEN Open(request, Render("register.html", EmptyDict), session, users, FALSE, FALSE)
        ELSE IF register_error(form) # ""
        THEN Open(request, Render("register.html", [error |-> register_error(form)]),
                  session, users, FALSE, FALSE)
        ELSE LET created == create_user(form.username, form.password)
             IN  IF created.success
                 THEN Open(request, Redirect("index"), SignedIn(form.username),
                           created.users, FALSE, TRUE)
                 ELSE Open(request, Render("register.html", [error |-> created.message]),
                           session, users, FALSE, FALSE)

Register ==
    \/ register("GET", EmptyDict)
    \/ \E form \in RegisterForms : register("POST", form)

\* logout, app.py:469-473
Logout ==
    Open(Request("logout", "GET", <<"logout">>, EmptyDict), Redirect("login"),
         DictPop(DictPop(session, "authenticated"), "username"), users, TRUE, FALSE)

\* index, app.py:475-478
Index ==
    Protected(Request("index", "GET", <<>>, EmptyDict),
              Reply(Render("index.html", EmptyDict)))

\* api_market_data, app.py:480-486
ApiMarketData ==
    \E data \in MarketData :
        Protected(Request("market-data", "GET", <<"api", "market-data">>, EmptyDict),
                  IF Truthy(data) THEN Reply(Json(200, data))
                  ELSE Reply(JsonError(500, "Could not fetch market data")))

\* the readings a handler takes are drawn only when the handler takes them
Readings(taken, values) == IF taken THEN values ELSE {CHOOSE v \in values : TRUE}

ApiProcessEntry ==
    LET LlmOutcomes == {[ok |-> TRUE, text |-> t] : t \in {"Summary: bought SPX", "Thesis: range day.  "}}
                       \cup {[ok |-> FALSE, text |-> "APIError"]}
    IN  LET ProcessRequests == {EmptyDict, [text |-> ""], [text |-> "bought spx"],
                                [text |-> "bought spx", include_market |-> FALSE]}
        IN  \E data \in ProcessRequests :
                LET calls == /\ login_allowed /\ TruthyStr(DictGet(data, "text", ""))
                             /\ TruthyStr(get_api_key)
                IN  \E now \in Readings(calls, EstTimes),
                       market_first \in Readings(calls /\ DictGet(data, "include_market", TRUE), MarketData),
                       llm \in Readings(calls, LlmOutcomes) :
                        \E market_second \in Readings(calls /\ llm.ok, MarketData) :
                            Protected(Request("process-entry", "POST", <<"api", "process-entry">>, data),
                                      api_process_entry(data, now, market_first, llm, market_second))

ApiSaveJournal ==
    LET SaveRequests == {EmptyDict} \cup {[entries |-> es] : es \in SeqsUpTo(RequestEntries, MaxReqEntries)}
    IN  \E data \in SaveRequests :
            LET n == Len(DictGet(data, "entries", <<>>))
            IN  /\ (login_allowed /\ IS_CLOUD) =>
                        (IF is_multi_user_mode
                         THEN SumLen(journalFiles,
                                     {name \in DOMAIN journalFiles : journalFiles[name].valid})
                         ELSE Len(StoredEntries(get_current_user))) + n <= EntryBound
                /\ (login_allowed /\ ~IS_CLOUD) => DocEntryCount + n <= MaxDocEntries
                /\ \E nows \in Readings(login_allowed /\ IS_CLOUD, ClockReadings(data)),
                      outcomes \in Readings(login_allowed /\ IS_CLOUD, OutcomeSeqs(n)),
                      doc_outcome \in Readings(login_allowed /\ ~IS_CLOUD /\ n > 0, DocOutcomes) :
                       Protected(Request("save-journal", "POST", <<"api", "save-journal">>, data),
                                 api_save_journal(data, nows, outcomes, doc_outcome))

\* api_settings, method GET, app.py:654-668
api_settings_get ==
    LET config == load_config
    IN  Reply(Json(200,
          [has_key |-> TruthyStr(DictGet(config, "api_key", "")),
           key_preview |-> IF TruthyStr(DictGet(config, "api_key", ""))
                           THEN Prefix(DictGet(config, "api_key", ""), KeyPreviewLen) \o "..."
                           ELSE "",
           key_from_env |-> TruthyStr(DictGet(environ, "ANTHROPIC_API_KEY", "")),
           is_cloud |-> IS_CLOUD,
           has_cloudinary |-> /\ TruthyStr(DictGet(config, "cloudinary_cloud_name", ""))
                              /\ TruthyStr(DictGet(config, "cloudinary_api_key", ""))
                              /\ TruthyStr(DictGet(config, "cloudinary_api_secret", "")),
           cloudinary_cloud_name |-> DictGet(config, "cloudinary_cloud_name", ""),
           cloudinary_from_env |-> TruthyStr(DictGet(environ, "CLOUDINARY_CLOUD_NAME", ""))]))

\* api_settings, method POST, app.py:669-684
api_settings_post(data, outcome) ==
    LET config_update == [k \in DOMAIN data \cap ConfigKeys |-> data[k]]
        saved == save_config(config_update, outcome)
    IN  [Reply(IF saved.ok THEN Json(200, [success |-> TRUE])
               ELSE JsonError(500, "Could not save settings"))
         EXCEPT !.config = saved.file]

ApiSettingsGet ==
    Protected(Request("settings", "GET", <<"api", "settings">>, EmptyDict), api_settings_get)

ApiSettingsPost ==
    LET SettingsUpdates ==
            {EmptyDict, [api_key |-> "sk-posted"], [api_key |-> ""],
             [cloudinary_cloud_name |-> "posted-cloud"],
             [cloudinary_api_key |-> "posted-id", cloudinary_api_secret |-> "posted-secret"]}
    IN  \E data \in SettingsUpdates :
          \E outcome \in Readings(login_allowed /\ ~IS_CLOUD, WriteOutcomes) :
            Protected(Request("settings", "POST", <<"api", "settings">>, data),
                      api_settings_post(data, outcome))

ApiViewJournal ==
    \E doc_outcome \in DocOutcomesHere :
        Protected(Request("view-journal", "GET", <<"api", "view-journal">>, EmptyDict),
                  api_view_journal(doc_outcome))

ApiListEntries ==
    \E doc_outcome \in DocOutcomesHere :
        Protected(Request("list-entries", "GET", <<"api", "list-entries">>, EmptyDict),
                  api_list_entries(doc_outcome))

\* POST /api/update-entry as the handler defined first serves it
ApiUpdateEntryByTimestamp ==
    LET UpdateByTimestampRequests ==
            {EmptyDict} \cup {[original_timestamp |-> t, content |-> EditedContent] : t \in EstTimes}
    IN  \E data \in UpdateByTimestampRequests,
           doc_outcome \in (IF login_allowed THEN DocOutcomes ELSE {"ok"}) :
            Protected(Request("update-entry-by-timestamp", "POST", <<"api", "update-entry">>, data),
                      api_update_entry_by_timestamp(data, doc_outcome))

ApiDeleteEntry ==
    LET DeleteRequests == {EmptyDict} \cup {[index |-> Some(i)] : i \in IndexRange}
    IN  \E data \in DeleteRequests :
          \E outcome \in Readings(login_allowed /\ Truthy(api_delete_entry(data, "ok").trace.writes),
                                  WriteOutcomes) :
            Protected(Request("delete-entry", "POST", <<"api", "delete-entry">>, data),
                      api_delete_entry(data, outcome))

\* POST /api/update-entry as the handler defined second serves it
ApiUpdateEntry ==
    LET UpdateRequests == {EmptyDict, [content |-> EditedContent], [index |-> Some(0)],
                           [index |-> Some(0), content |-> ""]}
                          \cup {[index |-> Some(i), content |-> EditedContent] : i \in IndexRange}
    IN  \E data \in UpdateRequests :
          \E outcome \in Readings(login_allowed /\ Truthy(api_update_entry(data, "ok").trace.writes),
                                  WriteOutcomes) :
            Protected(Request("update-entry", "POST", <<"api", "update-entry">>, data),
                      api_update_entry(data, outcome))

ApiClearJournal ==
    \E outcome \in (IF IS_CLOUD /\ login_allowed THEN WriteOutcomes ELSE {"ok"}) :
        Protected(Request("clear-journal", "POST", <<"api", "clear-journal">>, EmptyDict),
                  api_clear_journal(outcome))

----------------------------------------------------------------------------
(* The application: any start-up configuration, then any sequence of requests.
   The settings requests, which touch the configuration file only, are in
   SpecConfig below. *)

EnvWithKey == [ANTHROPIC_API_KEY |-> "sk-env"]
FileWithKey == ConfigFileOf([api_key |-> "sk-file"])

Deployment(cloud, invite, password, docx, env, file) ==
    [IS_CLOUD |-> cloud, INVITE_CODE |-> invite, APP_PASSWORD |-> password,
     docxInstalled |-> docx, environ |-> env, configFile |-> file]

\* the state after start-up, before the first request
Started ==
    /\ users = EmptyDict
    /\ session = EmptyDict
    /\ journalFiles = EmptyDict
    /\ doc = NoDocument
    /\ req = Request("start", "GET", <<>>, EmptyDict)
    /\ resp = Render("start", EmptyDict)
    /\ trace = NoTrace
    /\ loggedOut = FALSE
    /\ inflight = [w \in Workers |-> Idle]

Deployed(d) ==
    /\ IS_CLOUD = d.IS_CLOUD
    /\ INVITE_CODE = d.INVITE_CODE
    /\ APP_PASSWORD = d.APP_PASSWORD
    /\ docxInstalled = d.docxInstalled
    /\ environ = d.environ
    /\ configFile = d.configFile

\* the deployments the model starts from: cloud and local, each with no
\* authentication, the shared password or the invite code (local: or both);
\* local with and without python-docx; with the API key from the environment,
\* from the configuration file, or missing
Init ==
    LET Deployments ==
            {Deployment(TRUE, "", <<>>, FALSE, e, NoConfigFile) : e \in {EmptyDict, EnvWithKey}}
            \cup {Deployment(TRUE, "", Password1, FALSE, EnvWithKey, NoConfigFile),
                  Deployment(TRUE, TheInviteCode, <<>>, FALSE, EnvWithKey, NoConfigFile)}
            \cup {Deployment(FALSE, i, p, TRUE, EmptyDict, FileWithKey) :
                     i \in {"", TheInviteCode}, p \in {<<>>, Password1}}
            \cup {Deployment(FALSE, "", <<>>, d, e, NoConfigFile) :
                     d \in BOOLEAN, e \in {EmptyDict, EnvWithKey}}
    IN  (\E d \in Deployments : Deployed(d)) /\ Started

Next ==
    \/ Login
    \/ Register
    \/ Logout
    \/ Index
    \/ ApiMarketData
    \/ ApiProcessEntry
    \/ ApiSaveJournal
    \/ ApiViewJournal
    \/ ApiListEntries
    \/ ApiUpdateEntryByTimestamp
    \/ ApiDeleteEntry
    \/ ApiUpdateEntry
    \/ ApiClearJournal

Spec == Init /\ [][Next]_vars

----------------------------------------------------------------------------
(* The configuration alone: any environment and configuration file, then any
   sequence of settings requests *)

\* what an environment variable can be: unset, set to the empty string, set
EnvValues(var) == {None, Some(""), Some("env-" \o var)}

EnvOf(a, b, c, d) ==
    LET put(var, o) == IF o = None THEN EmptyDict ELSE (var :> o[1])
    IN  put("ANTHROPIC_API_KEY", a) @@ put("CLOUDINARY_CLOUD_NAME", b)
        @@ put("CLOUDINARY_API_KEY", c) @@ put("CLOUDINARY_API_SECRET", d)

InitConfig ==
    LET ConfigEnvirons ==
            {EnvOf(a, b, c, d) : a \in EnvValues("ANTHROPIC_API_KEY"),
                                 b \in EnvValues("CLOUDINARY_CLOUD_NAME"),
                                 c \in {None, Some("env-CLOUDINARY_API_KEY")},
                                 d \in {None, Some("env-CLOUDINARY_API_SECRET")}}
    IN  LET ConfigFiles ==
                {NoConfigFile, TornConfigFile, FileWithKey,
                 ConfigFileOf([api_key |-> "", cloudinary_cloud_name |-> "file-cloud",
                               cloudinary_api_key |-> "file-id", cloudinary_api_secret |-> "file-secret"])}
        IN  /\ IS_CLOUD \in BOOLEAN
            /\ INVITE_CODE = ""
            /\ APP_PASSWORD = <<>>
            /\ docxInstalled = FALSE
            /\ environ \in ConfigEnvirons
            /\ configFile \in ConfigFiles
            /\ Started

NextConfig == ApiSettingsGet \/ ApiSettingsPost

SpecConfig == InitConfig /\ [][NextConfig]_vars

----------------------------------------------------------------------------
(* Listing long journals: the one user of a cloud deployment without
   authentication, with any journal of up to MaxListLen entries *)

\* longest journal listed
MaxListLen == 12

\* the stored entries the listed journals are made of
ListedEntries ==
    {cloud_entry(ProcessedEntry, "Monday, January 05, 2026 09:30 AM EST"),
     cloud_entry(EmptyDict, "Tuesday, January 06, 2026 10:15 AM EST")}

InitList ==
    /\ Deployed(Deployment(TRUE, "", <<>>, FALSE, EnvWithKey, NoConfigFile))
    /\ users = EmptyDict
    /\ session = EmptyDict
    /\ \E es \in SeqsUpTo(ListedEntries, MaxListLen) :
          journalFiles = (JournalPathOf[DefaultUser] :> JsonFile([entries |-> es]))
    /\ doc = NoDocument
    /\ req = Request("start", "GET", <<>>, EmptyDict)
    /\ resp = Render("start", EmptyDict)
    /\ trace = NoTrace
    /\ loggedOut = FALSE
    /\ inflight = [w \in Workers |-> Idle]

NextList == ApiListEntries \/ ApiViewJournal

SpecList == InitList /\ [][NextList]_vars

----------------------------------------------------------------------------
(* The market snapshot: market-data requests over quotes around the
   thresholds of the sentiment *)

\* how far around each threshold the quotes are drawn, in hundredths
QuoteMargin == 1

\* SPX changes and VIX prices the fetch can give; None: no quote
SpxChanges ==
    {None} \cup {Some(t + d) : t \in {-100, -30, 0, 30, 100}, d \in (0 - QuoteMargin)..QuoteMargin}
VixPrices ==
    {None} \cup {Some(t + d) : t \in {1500, 2000, 2500, 3000}, d \in (0 - QuoteMargin)..QuoteMargin}

\* api_market_data, app.py:480-486, over the quotes of the model
ApiMarketDataQuoted ==
    \E spx \in SpxChanges, vix \in VixPrices :
        Protected(Request("market-data", "GET", <<"api", "market-data">>, EmptyDict),
                  Reply(Json(200, get_market_data(spx, vix))))

InitMarket ==
    Deployed(Deployment(TRUE, "", <<>>, FALSE, EnvWithKey, NoConfigFile)) /\ Started

SpecMarket == InitMarket /\ [][ApiMarketDataQuoted]_vars

----------------------------------------------------------------------------
(* Two requests on the journal of one user, each on its own thread and run
   step by step: a save-journal of one entry or a delete-entry.  The
   deployment is the cloud one without authentication. *)

\* longest journal the two requests start from
MaxRaceEntries == 1

\* the steps of the threads leave the deployment, the configuration, the
\* accounts and the record of the last sequential request alone
RaceFrame == UNCHANGED <<settings, environ, configFile, session, doc, req, resp, trace, loggedOut>>

\* save-journal of one entry up to the load and the append of add_cloud_entry,
\* app.py:555-560, 287-288
SaveLoad(w) ==
    /\ inflight[w] = Idle
    /\ \E entry \in RequestEntries :
          LET journal == load_cloud_journal(journalFiles, get_current_user)
              added == cloud_entry(entry, CHOOSE t \in EstTimes : TRUE)
          IN  inflight' = [inflight EXCEPT ![w] =
                  [pc |-> "loaded", op |-> "save-journal", change |-> added,
                   journal |-> [journal EXCEPT !.entries = Append(@, added)]]]
    /\ UNCHANGED <<journalFiles, users>>
    /\ RaceFrame

\* delete-entry up to the pop, app.py:932-947; without an entry at the index
\* the request ends here, app.py:951-952
DeleteLoad(w) ==
    /\ inflight[w] = Idle
    /\ \E entry_index \in IndexRange :
          LET journal == load_cloud_journal(journalFiles, get_current_user)
              index == delete_index(entry_index, Len(journal.entries))
          IN  inflight' = [inflight EXCEPT ![w] =
                  IF 0 <= index /\ index < Len(journal.entries)
                  THEN [pc |-> "loaded", op |-> "delete-entry",
                        change |-> journal.entries[index + 1],
                        journal |-> [journal EXCEPT !.entries = PopAt(@, index)]]
                  ELSE [pc |-> "done", op |-> "delete-entry", wrote |-> FALSE,
                        resp |-> JsonError(404, "Entry not found")]]
    /\ UNCHANGED <<journalFiles, users>>
    /\ RaceFrame

\* the files after a thread wrote the journal it holds, with the journal the
\* thread read and changed once the other thread's writes are merged in
write_back_merging(fs, request, outcome) ==
    LET current == load_cloud_journal(fs, get_current_user)
        merged == IF request.op = "save-journal"
                  THEN Append(current.entries, request.change)
                  ELSE SelectSeq(current.entries, LAMBDA e : e # request.change)
    IN  save_cloud_journal_files(fs, [current EXCEPT !.entries = merged],
                                 get_current_user, outcome)

\* the files after a thread wrote the journal it holds: save_cloud_journal
\* of add_cloud_entry, app.py:289, and of api_delete_entry, app.py:949
write_back(fs, request, outcome) ==
    save_cloud_journal_files(fs, request.journal, get_current_user, outcome)

\* the write and the response of the request of a thread, app.py:561-564, 949-950
WriteBack(w) ==
    /\ inflight[w].pc = "loaded"
    /\ \E outcome \in WriteOutcomes :
          /\ journalFiles' = write_back(journalFiles, inflight[w], outcome)
          /\ inflight' = [inflight EXCEPT ![w] =
                [pc |-> "done", op |-> @.op, change |-> @.change, journal |-> @.journal,
                 wrote |-> save_cloud_journal_result(outcome),
                 resp |-> IF @.op = "delete-entry"
                          THEN Json(200, [success |-> TRUE,
                                          deleted |-> DictGet(@.change, "timestamp", "Unknown")])
                          ELSE IF save_cloud_journal_result(outcome)
                          THEN Json(200, [success |-> TRUE, count |-> 1, mode |-> "cloud"])
                          ELSE JsonError(500, "Failed to save entry")]]
    /\ UNCHANGED users
    /\ RaceFrame

InitRace ==
    /\ Deployed(Deployment(TRUE, "", <<>>, FALSE, EnvWithKey, NoConfigFile))
    /\ users = EmptyDict
    /\ session = EmptyDict
    /\ \E es \in SeqsUpTo(ListedEntries, MaxRaceEntries) :
          journalFiles = (JournalPathOf[DefaultUser] :> JsonFile([entries |-> es]))
    /\ doc = NoDocument
    /\ req = Request("start", "GET", <<>>, EmptyDict)
    /\ resp = Render("start", EmptyDict)
    /\ trace = NoTrace
    /\ loggedOut = FALSE
    /\ inflight = [w \in Workers |-> Idle]

NextRace == \E w \in Workers : SaveLoad(w) \/ DeleteLoad(w) \/ WriteBack(w)

SpecRace == InitRace /\ [][NextRace]_vars

----------------------------------------------------------------------------
(* Two registrations served by two threads of a multi-user cloud deployment.
   create_user reads the users database, looks the user name up and writes
   the database back without a lock, app.py:81-92; a thread can be preempted
   between the read and the write. *)

\* register up to the look-up of create_user, app.py:430-456, 83-86: a form
\* that is refused ends the request, an accepted one holds the database read
RegisterCheck(w) ==
    /\ inflight[w] = Idle
    /\ \E form \in RegisterForms :
          LET loaded == load_users
              error == IF register_error(form) # "" THEN register_error(form)
                       ELSE IF LowerOf[form.username] \in DOMAIN loaded
                       THEN "Username already exists"
                       ELSE ""
          IN  inflight' = [inflight EXCEPT ![w] =
                  IF error # ""
                  THEN [pc |-> "done", form |-> form, success |-> FALSE,
                        resp |-> Render("register.html", [error |-> error])]
                  ELSE [pc |-> "checked", form |-> form, users |-> loaded]]
    /\ UNCHANGED <<journalFiles, users>>
    /\ RaceFrame

\* the database create_user writes from the one it read, app.py:88-91
create_user_write(loaded, form) ==
    DictSet(loaded, LowerOf[form.username],
            [username |-> form.username,
             password_hash |-> hash_password(form.password),
             created |-> "now"])

\* save_users of create_user and the answer of register, app.py:91-92, 459-463
RegisterWrite(w) ==
    /\ inflight[w].pc = "checked"
    /\ users' = create_user_write(inflight[w].users, inflight[w].form)
    /\ inflight' = [inflight EXCEPT ![w] =
          [pc |-> "done", form |-> @.form, success |-> TRUE, resp |-> Redirect("index")]]
    /\ UNCHANGED journalFiles
    /\ RaceFrame

InitRegisterRace ==
    /\ Deployed(Deployment(TRUE, TheInviteCode, <<>>, FALSE, EnvWithKey, NoConfigFile))
    /\ Started

NextRegisterRace == \E w \in Workers : RegisterCheck(w) \/ RegisterWrite(w)

SpecRegisterRace == InitRegisterRace /\ [][NextRegisterRace]_vars

----------------------------------------------------------------------------
(* Listing and deleting by position: the one user of a cloud deployment
   without authentication, whose journal starts as up to MaxDeleteLen entries
   saved at different times *)

\* longest journal entries are deleted from
MaxDeleteLen == 11

\* the k-th entry saved, add_cloud_entry of app.py:555-560
DatedEntry(k) ==
    cloud_entry(EmptyDict, "Monday, January 05, 2026 09:" \o ToString(10 + k) \o " AM EST")

\* POST /api/delete-entry with any index around the length of the journal
ApiDeleteListed ==
    \E entry_index \in (0 - (MaxDeleteLen + 1))..MaxDeleteLen, outcome \in WriteOutcomes :
        LET data == [index |-> Some(entry_index)]
        IN  Protected(Request("delete-entry", "POST", <<"api", "delete-entry">>, data),
                      api_delete_entry(data, outcome))

InitDelete ==
    /\ Deployed(Deployment(TRUE, "", <<>>, FALSE, EnvWithKey, NoConfigFile))
    /\ users = EmptyDict
    /\ session = EmptyDict
    /\ \E n \in 0..MaxDeleteLen :
          journalFiles = (JournalPathOf[DefaultUser]
                            :> JsonFile([entries |-> [k \in 1..n |-> DatedEntry(k)]]))
    /\ doc = NoDocument
    /\ req = Request("start", "GET", <<>>, EmptyDict)
    /\ resp = Render("start", EmptyDict)
    /\ trace = NoTrace
    /\ loggedOut = FALSE
    /\ inflight = [w \in Workers |-> Idle]

NextDelete == ApiListEntries \/ ApiDeleteListed

SpecDelete == InitDelete /\ [][NextDelete]_vars

----------------------------------------------------------------------------
(* Properties *)

\* the last step was the body of handler op, run by login_required
Served(op) == req.op = op /\ trace.ran
\* the last response is a JSON success
Succeeded == resp.type = "json" /\ resp.status = 200
\* the last response is a JSON error payload with this status
Failed(status) == resp.type = "json" /\ resp.status = status /\ "error" \in DOMAIN resp.body
\* the entries of the last save-journal request
Submitted == DictGet(req.data, "entries", <<>>)
Last(s) == s[Len(s)]

(* C1: in cloud mode, after a successful save-journal of a non-empty list,
   list-entries by the same user returns a list whose first element is the
   last entry of the request: its timestamp is the submitted one (when one was
   submitted) and its content is the submitted one (the empty string when none
   was submitted). *)
C1_SavedEntryListedFirst ==
    (IS_CLOUD /\ Served("save-journal") /\ Succeeded) =>
        LET listed == api_list_entries("ok").resp
        IN  /\ listed.status = 200
            /\ Len(listed.body.entries) >= 1
            /\ listed.body.entries[1].content = DictGet(Last(Submitted), "content", "")
            /\ "timestamp" \in DOMAIN Last(Submitted) =>
                    listed.body.entries[1].timestamp = Last(Submitted).timestamp

\* a save of an entry onto a journal that held a different entry
C1_Witness ==
    /\ IS_CLOUD /\ Served("save-journal") /\ Succeeded
    /\ Len(StoredEntries(get_current_user)) >= 2
    /\ "timestamp" \in DOMAIN Last(Submitted)
    /\ StoredEntries(get_current_user)[1].content # Last(Submitted).content

(* C2: in cloud mode list-entries returns exactly the last min(10, n) of the
   n stored entries of the user, newest first. *)
C2_ListIsLastTenReversed ==
    (IS_CLOUD /\ Served("list-entries")) =>
        LET stored == StoredEntries(get_current_user)
            n == Len(stored)
            m == IF n < 10 THEN n ELSE 10
        IN  /\ Succeeded
            /\ Len(resp.body.entries) = m
            /\ \A i \in 1..m :
                   /\ resp.body.entries[i].timestamp = stored[n + 1 - i].timestamp
                   /\ resp.body.entries[i].content = stored[n + 1 - i].content

\* a listing of more than ten entries whose oldest and newest entries differ
C2_Witness ==
    /\ IS_CLOUD /\ Served("list-entries")
    /\ Len(StoredEntries(get_current_user)) > 10
    /\ Len(resp.body.entries) = 10
    /\ StoredEntries(get_current_user)[1] # Last(StoredEntries(get_current_user))
    /\ StoredEntries(get_current_user)[1] # StoredEntries(get_current_user)[2]

(* C3: in cloud mode a delete-entry with an index k in 0..n-1 on a journal of
   n entries leaves n-1 entries: those before k in place, those after k moved
   down by one. *)
C3_DeleteRemovesExactlyOne ==
    [][(IS_CLOUD /\ req'.op = "delete-entry" /\ trace'.ran
        /\ "index" \in DOMAIN req'.data
        /\ req'.data.index[1] >= 0
        /\ req'.data.index[1] < Len(StoredEntries(get_current_user))) =>
            LET before == StoredEntries(get_current_user)
                after == StoredEntries(get_current_user)'
                k == req'.data.index[1]
            IN  /\ Len(after) = Len(before) - 1
                /\ \A j \in 1..Len(after) :
                       after[j] = IF j <= k THEN before[j] ELSE before[j + 1]]_vars

(* C4: a successful cloud-mode save-journal only appends: the journal stored
   before it is a prefix of the journal stored after it, and the entries of
   the request follow in request order. *)
C4_SaveOnlyAppends ==
    [][(IS_CLOUD /\ req'.op = "save-journal" /\ trace'.ran
        /\ resp'.type = "json" /\ resp'.status = 200) =>
            LET before == StoredEntries(get_current_user)
                after == StoredEntries(get_current_user)'
                entries == req'.data.entries
            IN  /\ Len(after) = Len(before) + Len(entries)
                /\ SubSeq(after, 1, Len(before)) = before
                /\ \A i \in 1..Len(entries) :
                       /\ after[Len(before) + i].content = DictGet(entries[i], "content", "")
                       /\ "timestamp" \in DOMAIN entries[i] =>
                              after[Len(before) + i].timestamp = entries[i].timestamp]_vars

\* a successful save of an entry onto a journal that already held one
C4_Witness ==
    /\ IS_CLOUD /\ Served("save-journal") /\ Succeeded
    /\ Len(StoredEntries(get_current_user)) > Len(Submitted)
    /\ StoredEntries(get_current_user)[1] # Last(StoredEntries(get_current_user))

(* C5: an entry with raw_text that save-journal stored in cloud mode has its
   raw text in the store. *)
C5_StoredEntryKeepsRawText ==
    (IS_CLOUD /\ Served("save-journal") /\ Succeeded
     /\ "raw_text" \in DOMAIN Last(Submitted)) =>
        /\ "raw_text" \in DOMAIN Last(StoredEntries(get_current_user))
        /\ Last(StoredEntries(get_current_user)).raw_text = Last(Submitted).raw_text

(* C6: in local mode every well-formed delete-entry, update-entry (by index)
   and clear-journal answers 400 and changes neither the document nor any
   JSON journal. *)
C6_LocalModeRefusesEdits ==
    [][(~IS_CLOUD /\ trace'.ran
        /\ \/ req'.op = "delete-entry" /\ "index" \in DOMAIN req'.data
           \/ /\ req'.op = "update-entry" /\ "index" \in DOMAIN req'.data
              /\ DictGet(req'.data, "content", "") # ""
           \/ req'.op = "clear-journal") =>
            /\ resp'.type = "json" /\ resp'.status = 400
            /\ "error" \in DOMAIN resp'.body
            /\ doc' = doc
            /\ journalFiles' = journalFiles]_vars

\* a clear-journal refused in local mode while the document holds an entry
C6_Witness ==
    /\ ~IS_CLOUD /\ Served("clear-journal") /\ Failed(400)
    /\ doc.exists /\ DocEntryCount >= 1

\* the handlers under login_required
ProtectedOps == {"index", "market-data", "process-entry", "save-journal", "settings",
                 "view-journal", "list-entries", "update-entry-by-timestamp",
                 "delete-entry", "update-entry", "clear-journal"}

\* the session is the one login_required asks for in the mode of the deployment
SessionAuthenticated ==
    "authenticated" \in DOMAIN session /\ session.authenticated = TRUE
SessionEntitled ==
    IF INVITE_CODE # ""
    THEN SessionAuthenticated /\ "username" \in DOMAIN session /\ session.username # <<>>
    ELSE (APP_PASSWORD # <<>>) => SessionAuthenticated

(* C7: the body of a login_required handler runs only for a session that is
   authenticated (and, with INVITE_CODE set, has a user name); a request that
   is refused is answered 401 under /api/ and redirected to login elsewhere,
   and changes no store; with INVITE_CODE or APP_PASSWORD set, from a logout
   to the next successful login or registration every protected request is
   refused. *)
C7_LoginRequired ==
    [][/\ trace'.ran => SessionEntitled'
       /\ (req'.op \in ProtectedOps /\ ~trace'.ran) =>
              /\ resp' = IF Len(req'.path) >= 2 /\ req'.path[1] = "api"
                          THEN [type |-> "json", status |-> 401,
                                body |-> [error |-> "Authentication required"]]
                          ELSE [type |-> "redirect", status |-> 302,
                                body |-> [location |-> "login"]]
              /\ UNCHANGED <<journalFiles, doc, users, configFile, session>>
       /\ (req'.op \in ProtectedOps /\ loggedOut'
            /\ (INVITE_CODE # "" \/ APP_PASSWORD # <<>>)) => ~trace'.ran]_vars

\* a save-journal refused after a logout, with a journal already stored
C7_Witness ==
    /\ loggedOut /\ req.op = "save-journal" /\ ~trace.ran
    /\ resp.status = 401
    /\ journalFiles # EmptyDict

(* C8: in cloud mode, when the write of the journal file fails during
   delete-entry, update-entry or clear-journal, the response is an error
   payload and not a success. *)
C8_WriteFailureReported ==
    (IS_CLOUD /\ trace.ran /\ req.op \in {"delete-entry", "update-entry", "clear-journal"}
     /\ \E i \in 1..Len(trace.writes) : ~trace.writes[i]) =>
        /\ "error" \in DOMAIN resp.body
        /\ resp.status # 200

\* no API key is configured: none in the environment and, in local mode, none
\* in the configuration file
NoApiKey ==
    /\ DictGet(environ, "ANTHROPIC_API_KEY", "") = ""
    /\ IS_CLOUD \/ ~configFile.exists \/ ~configFile.valid
       \/ DictGet(configFile.data, "api_key", "") = ""

\* the last request lacks an input its handler needs
MissingInput ==
    \/ req.op = "process-entry"
       /\ (DictGet(req.data, "text", "") = "" \/ NoApiKey)
    \/ req.op = "save-journal" /\ DictGet(req.data, "entries", <<>>) = <<>>
    \/ req.op = "delete-entry" /\ "index" \notin DOMAIN req.data
    \/ req.op = "update-entry"
       /\ ("index" \notin DOMAIN req.data \/ DictGet(req.data, "content", "") = "")

(* C9: a request that lacks an input (process-entry without text or without a
   configured API key, save-journal without entries, delete-entry without
   index, update-entry without index or content) is answered 400 with an
   error, changes no journal and no document, and calls no LLM. *)
C9_MissingInputIs400 ==
    [][(trace'.ran /\ MissingInput') =>
          /\ resp'.type = "json" /\ resp'.status = 400
          /\ "error" \in DOMAIN resp'.body
          /\ journalFiles' = journalFiles
          /\ doc' = doc
          /\ trace'.llm = <<>>
          /\ trace'.writes = <<>>]_vars

\* an update-entry with an index and no content, refused while the journal
\* holds an entry
C9_Witness ==
    /\ IS_CLOUD /\ Served("update-entry") /\ MissingInput /\ Failed(400)
    /\ "index" \in DOMAIN req.data
    /\ Len(StoredEntries(get_current_user)) >= 1

\* the value a configuration key resolves to, as the claim states it
Resolved(key) ==
    IF DictGet(environ, EnvVarOf(key), "") # "" THEN environ[EnvVarOf(key)]
    ELSE IF ~IS_CLOUD /\ configFile.exists /\ configFile.valid
            /\ key \in DOMAIN configFile.data
    THEN configFile.data[key]
    ELSE ""

(* C10: each of the four keys resolves to the environment variable when it is
   set and non-empty, else in local mode to the value of the configuration
   file when it has one, else to the empty string; the settings page shows
   the resolved values; in cloud mode a settings update reports success and
   leaves the configuration file as it was; the environment never changes, so
   a key set there resolves to it after any updates. *)
C10_ConfigResolution ==
    [][/\ \A key \in ConfigKeys : load_config'[key] = Resolved(key)'
       /\ (req'.op = "settings" /\ req'.method = "GET" /\ trace'.ran) =>
              /\ resp'.body.has_key = (Resolved("api_key") # "")
              /\ resp'.body.cloudinary_cloud_name = Resolved("cloudinary_cloud_name")
       /\ (IS_CLOUD /\ req'.op = "settings" /\ req'.method = "POST" /\ trace'.ran) =>
              /\ resp'.status = 200 /\ resp'.body = [success |-> TRUE]
              /\ configFile' = configFile
       /\ environ' = environ]_vars

\* a local settings update that posted an API key while the environment sets one
C10_Witness ==
    /\ ~IS_CLOUD /\ Served("settings") /\ req.method = "POST" /\ Succeeded
    /\ "api_key" \in DOMAIN req.data
    /\ DictGet(environ, "ANTHROPIC_API_KEY", "") # ""
    /\ configFile.valid /\ configFile.data.api_key = "sk-posted"
    /\ load_config.api_key = environ.ANTHROPIC_API_KEY

\* the five labels, from the most bearish to the most bullish
SentimentRank ==
    [l \in {"STRONGLY BEARISH", "BEARISH", "NEUTRAL", "BULLISH", "STRONGLY BULLISH"} |->
        CASE l = "STRONGLY BEARISH" -> 1 [] l = "BEARISH" -> 2 [] l = "NEUTRAL" -> 3
          [] l = "BULLISH" -> 4 [] OTHER -> 5]

\* the label the claim gives the change c and the price v, in hundredths
ClaimedLabel(c, v) ==
    LET score == (IF c > 100 THEN 2 ELSE IF c > 30 THEN 1
                  ELSE IF c < -100 THEN -2 ELSE IF c < -30 THEN -1 ELSE 0)
                 + (IF v < 1500 THEN 1 ELSE 0) + (IF v > 2500 THEN -1 ELSE 0)
                 + (IF v > 3000 THEN -1 ELSE 0)
    IN  IF score >= 3 THEN "STRONGLY BULLISH"
        ELSE IF score >= 1 THEN "BULLISH"
        ELSE IF score = 0 THEN "NEUTRAL"
        ELSE IF score >= -2 THEN "BEARISH"
        ELSE "STRONGLY BEARISH"

\* the label get_market_data gives the quotes spx and vix
LabelOf(spx, vix) == get_market_data(spx, vix).sentiment.label

(* C11: the sentiment label of a snapshot is the claimed function of the SPX
   change (0 when SPX is missing) and the VIX price (20 when VIX is missing),
   one of five labels; every label is the label of some quotes; and for a
   fixed VIX price the label gets no more bearish as the change grows. *)
C11_SentimentLabel ==
    /\ (Served("market-data") /\ Succeeded) =>
          LET c == IF "GSPC" \in DOMAIN resp.body THEN resp.body.GSPC.change ELSE 0
              v == IF "VIX" \in DOMAIN resp.body THEN resp.body.VIX.price ELSE 2000
          IN  /\ resp.body.sentiment.label = ClaimedLabel(c, v)
              /\ resp.body.sentiment.label \in DOMAIN SentimentRank
    /\ \A l \in DOMAIN SentimentRank :
          \E spx \in SpxChanges, vix \in VixPrices : LabelOf(spx, vix) = l
    /\ \A vix \in VixPrices, lo \in SpxChanges \ {None}, hi \in SpxChanges \ {None} :
          lo[1] <= hi[1] => SentimentRank[LabelOf(lo, vix)] <= SentimentRank[LabelOf(hi, vix)]

\* a snapshot with a change just inside -1% and a VIX above 30
C11_Witness ==
    /\ Served("market-data") /\ Succeeded
    /\ "GSPC" \in DOMAIN resp.body /\ resp.body.GSPC.change = -100
    /\ "VIX" \in DOMAIN resp.body /\ resp.body.VIX.price > 3000
    /\ resp.body.sentiment.label = "STRONGLY BEARISH"

\* the threads whose request ended after a write of the journal
Writers == {w \in Workers : inflight[w].pc = "done" /\ "journal" \in DOMAIN inflight[w]}

(* C12: the store takes no lock and the last write wins: once the requests
   that wrote the journal have all written it successfully, the stored journal
   is the journal one of them read and changed, whatever the others wrote;
   so two interleaved requests can both report success while the stored
   journal lacks the effect of one of them (the witness). *)
C12_LastWriteWins ==
    (Writers # {} /\ \A w \in Writers : inflight[w].wrote) =>
        \E w \in Writers : StoredEntries(get_current_user) = inflight[w].journal.entries

\* two save-journal requests both answered with success, the entry of one of
\* them missing from the stored journal
C12_Witness ==
    /\ \A w \in Workers :
          /\ inflight[w].pc = "done" /\ inflight[w].op = "save-journal"
          /\ inflight[w].resp.status = 200 /\ "success" \in DOMAIN inflight[w].resp.body
    /\ \E w \in Workers :
          \A i \in 1..Len(StoredEntries(get_current_user)) :
              StoredEntries(get_current_user)[i] # inflight[w].change

(* C13: process-entry sends the LLM a message made of the timestamp, then the
   market block if and only if include_market is true and a snapshot was
   obtained, then the raw text as submitted; the entry it returns has the
   LLM's text as content, the submitted text as raw_text and the timestamp
   of the message; it writes no journal file and no document. *)
C13_ProcessEntryMessage ==
    [][(req'.op = "process-entry" /\ trace'.ran) =>
          /\ journalFiles' = journalFiles /\ doc' = doc /\ trace'.writes = <<>>
          /\ trace'.llm # <<>> =>
                LET msg == trace'.llm[1].message
                    withMarket == /\ DictGet(req'.data, "include_market", TRUE)
                                  /\ trace'.market # <<>> /\ trace'.market[1] # None
                IN  /\ Len(msg) = IF withMarket THEN 3 ELSE 2
                    /\ msg[1].part = "Date/Time" /\ msg[1].timestamp \in EstTimes
                    /\ withMarket =>
                          /\ msg[2].part = "market"
                          /\ msg[2].lines = format_market_for_prompt(trace'.market[1])
                    /\ msg[Len(msg)] = [part |-> "My trading thoughts", text |-> req'.data.text]
                    /\ resp'.status = 200 =>
                          /\ resp'.body.content = trace'.llm[1].reply.text
                          /\ resp'.body.raw_text = req'.data.text
                          /\ resp'.body.timestamp = msg[1].timestamp]_vars

\* an entry returned for a request that declined the market block, while an
\* entry is stored
C13_Witness ==
    /\ Served("process-entry") /\ Succeeded
    /\ DictGet(req.data, "include_market", TRUE) = FALSE
    /\ Len(trace.llm[1].message) = 2
    /\ resp.body.content = "Thesis: range day.  "
    /\ IS_CLOUD /\ Len(StoredEntries(get_current_user)) >= 1

(* C14: in cloud mode, after a clear-journal that answered with success the
   journal of the user has no entry: list-entries returns the empty list and
   view-journal returns no content with the message 'No journal entries
   found'. *)
C14_ClearedJournalIsEmpty ==
    (IS_CLOUD /\ Served("clear-journal") /\ Succeeded) =>
        /\ StoredEntries(get_current_user) = <<>>
        /\ api_list_entries("ok").resp.body.entries = <<>>
        /\ api_view_journal("ok").resp.body =
              [content |-> None, message |-> "No journal entries found"]

(* C15: in cloud mode, when the write of the k-th entry of a save-journal
   fails, the response is 500 'Failed to save entry' and the stored journal
   is the journal from before the request followed by the first k-1 entries
   of the request. *)
C15_FailedSaveKeepsEarlierEntries ==
    [][(IS_CLOUD /\ req'.op = "save-journal" /\ trace'.ran
        /\ \E k \in 1..Len(trace'.writes) : ~trace'.writes[k]) =>
            LET before == StoredEntries(get_current_user)
                after == StoredEntries(get_current_user)'
                k == Len(trace'.writes)
            IN  /\ resp'.status = 500
                /\ resp'.body = [error |-> "Failed to save entry"]
                /\ Len(after) = Len(before) + k - 1
                /\ SubSeq(after, 1, Len(before)) = before
                /\ \A i \in 1..(k - 1) :
                       after[Len(before) + i].content
                          = DictGet(req'.data.entries[i], "content", "")]_vars

(* C16: in cloud mode, delete-entry with index i on a journal of n entries
   takes a negative i as n+i. When the resulting index is in 0..n-1, that is
   -n <= i <= n-1, the handler removes the entry at that index: it answers
   200 with the timestamp of that entry, rewrites the journal, and the
   journal written is the old one without that entry. Otherwise it answers
   404 'Entry not found', the journal files are unchanged and nothing is
   written. *)
C16_DeleteIndexRange ==
    [][(IS_CLOUD /\ req'.op = "delete-entry" /\ trace'.ran
        /\ "index" \in DOMAIN req'.data) =>
            LET before == StoredEntries(get_current_user)
                after == StoredEntries(get_current_user)'
                n == Len(before)
                i == req'.data.index[1]
                index == IF i < 0 THEN n + i ELSE i
            IN  /\ (0 <= index /\ index < n) <=> (0 - n <= i /\ i <= n - 1)
                /\ IF 0 <= index /\ index < n
                   THEN /\ resp'.status = 200
                        /\ resp'.body.deleted
                             = DictGet(before[index + 1], "timestamp", "Unknown")
                        /\ Len(trace'.writes) = 1
                        /\ trace'.writes[1] => after = PopAt(before, index)
                   ELSE /\ resp'.status = 404
                        /\ resp'.body = [error |-> "Entry not found"]
                        /\ journalFiles' = journalFiles
                        /\ trace'.writes = <<>>]_vars

\* a delete with index -1 removed the last of two entries
C16_Witness ==
    /\ IS_CLOUD /\ Served("delete-entry") /\ Succeeded
    /\ "index" \in DOMAIN req.data /\ req.data.index[1] = 0 - 1
    /\ trace.writes = <<TRUE>>
    /\ Len(StoredEntries(get_current_user)) = 1

(* C17: in cloud mode, update-entry with index k in 0..n-1 and non-empty
   content leaves the number and the order of the entries, every other
   entry, and every field of entry k but content, edited and preview as they
   were; with an index outside 0..n-1 it answers 404 and the journal is
   unchanged. *)
C17_UpdateChangesOneEntry ==
    [][(IS_CLOUD /\ req'.op = "update-entry" /\ trace'.ran
        /\ "index" \in DOMAIN req'.data
        /\ TruthyStr(DictGet(req'.data, "content", ""))) =>
            LET before == StoredEntries(get_current_user)
                after == StoredEntries(get_current_user)'
                k == req'.data.index[1]
                changed == {"content", "edited", "preview"}
            IN  IF 0 <= k /\ k < Len(before)
                THEN /\ Len(after) = Len(before)
                     /\ \A j \in 1..Len(before) : j # k + 1 => after[j] = before[j]
                     /\ DOMAIN after[k + 1] \subseteq DOMAIN before[k + 1] \cup changed
                     /\ \A f \in DOMAIN before[k + 1] \ changed :
                           /\ f \in DOMAIN after[k + 1]
                           /\ after[k + 1][f] = before[k + 1][f]
                ELSE /\ resp'.status = 404
                     /\ journalFiles' = journalFiles]_vars

(* C19: in cloud multi-user mode, two registered accounts have different
   journal files; the user of an authenticated session, signed in by
   registration or by login, has the journal file of its account; a step of
   one user changes no stored entry of another account, and list-entries
   returns entries of the journal of the user only. *)
C19_UserIsolation ==
    [][(IS_CLOUD /\ is_multi_user_mode) =>
        /\ \A a, b \in DOMAIN users' :
              a # b => get_user_journal_path(users'[a].username)
                         # get_user_journal_path(users'[b].username)
        /\ SessionEntitled' =>
              /\ LowerOf[get_current_user'] \in DOMAIN users'
              /\ get_user_journal_path(get_current_user')
                   = get_user_journal_path(users'[LowerOf[get_current_user']].username)
        /\ \A a \in DOMAIN users :
              (trace'.ran /\ a # LowerOf[get_current_user]) =>
                  StoredEntries(users[a].username)' = StoredEntries(users[a].username)
        /\ ~trace'.ran => journalFiles' = journalFiles
        /\ (req'.op = "list-entries" /\ trace'.ran /\ "entries" \in DOMAIN resp'.body) =>
              \A i \in 1..Len(resp'.body.entries) :
                  \E j \in 1..Len(StoredEntries(get_current_user)) :
                      resp'.body.entries[i].timestamp
                         = StoredEntries(get_current_user)[j].timestamp]_vars

\* a user cleared the own journal while another account keeps its entry
C19_Witness ==
    /\ IS_CLOUD /\ is_multi_user_mode
    /\ Served("clear-journal") /\ Succeeded /\ trace.writes = <<TRUE>>
    /\ StoredEntries(get_current_user) = <<>>
    /\ \E a \in DOMAIN users :
          /\ a # LowerOf[get_current_user]
          /\ StoredEntries(users[a].username) # <<>>

(* C18: under any interleaving of registration requests, at most one
   registration per lowercased user name reports success, and the password
   hash of an existing account is never overwritten. *)
C18_OneRegistrationPerUsername ==
    [][/\ \A k \in DOMAIN users :
            /\ k \in DOMAIN users'
            /\ users'[k].password_hash = users[k].password_hash
       /\ \A v, w \in Workers :
            (/\ v # w
             /\ inflight'[v].pc = "done" /\ inflight'[v].success
             /\ inflight'[w].pc = "done" /\ inflight'[w].success) =>
                LowerOf[inflight'[v].form.username]
                   # LowerOf[inflight'[w].form.username]]_vars

(* C20: in cloud mode, when list-entries is followed by delete-entry with no
   write in between, the entry shown at position i of the list, for
   0 <= i < min(10, n), is the entry delete-entry removes for index -(i+1)
   and for index n-1-i. *)
C20_ListPositionIsDeleteIndex ==
    [][(IS_CLOUD /\ Served("list-entries") /\ req'.op = "delete-entry" /\ trace'.ran) =>
        LET before == StoredEntries(get_current_user)
            after == StoredEntries(get_current_user)'
            n == Len(before)
            shown == DictGet(resp.body, "entries", <<>>)
        IN  /\ Len(shown) = (IF n < 10 THEN n ELSE 10)
            /\ \A i \in 0..(Len(shown) - 1) :
                  req'.data.index[1] \in {0 - (i + 1), n - 1 - i} =>
                      /\ resp'.status = 200
                      /\ resp'.body.deleted = shown[i + 1].timestamp
                      /\ \A j \in 1..n :
                            before[j].timestamp = shown[i + 1].timestamp <=> j = n - i
                      /\ trace'.writes = <<TRUE>> => after = PopAt(before, n - 1 - i)]_vars

\* after a delete with index -1 the same index is that of a different entry
C20_Witness ==
    /\ IS_CLOUD /\ Served("delete-entry") /\ Succeeded
    /\ req.data.index[1] = 0 - 1
    /\ trace.writes = <<TRUE>>
    /\ Len(StoredEntries(get_current_user)) >= 10
    /\ Last(StoredEntries(get_current_user)).timestamp # resp.body.deleted

====
